---- MODULE Spec2Model ----
(***************************************************************************)
(* Tag-indexed LRU cache (package lru: type LRU; package tci: type Cache). *)
(*                                                                         *)
(* The engine is modelled as the source writes it: a list of elements      *)
(* (container/list), the key index `items`, the tag index `tags`, and the  *)
(* entry each element points at.  List elements are pointers in the        *)
(* source; here they are identities drawn from Elements.  Every public     *)
(* operation of Cache runs under the exclusive lock of the wrapper, so one *)
(* operation is one atomic step of this specification.                     *)
(***************************************************************************)
EXTENDS Integers, Sequences, FiniteSets, TLC

\* ---------------------------------------------------------------- bounds
MaxKeys == 3
MaxSize == 2
MaxEl == 3

Nil == 0

Elements == 1..MaxEl

MaxThreads == 2

Threads == 1..MaxThreads

TagNames == {"a", "b", "c"}

\* Capacities a caller can pass to Resize: the parameter is a Go int, and
\* Resize does not validate it, so zero and a negative value are inputs.
Sizes == (0 - 1)..MaxSize

\* The callers the model runs the cache against.  Each draws its arguments
\* from its own small sets: keys, values, the tag lists it passes to Add and
\* the tag lists it passes to Invalidate and FindByTags (Go slices: ordered),
\* and the number of list elements that may be allocated and not yet freed.
Worlds ==
    { [name |-> "recency", keys |-> 1..MaxKeys, values |-> {1}, els |-> MaxEl,
       tagLists |-> {<<"a">>},
       invLists |-> {<<"a">>},
       onEvict |-> TRUE],
      [name |-> "values", keys |-> {1, 2}, values |-> {1, 2}, els |-> 3,
       tagLists |-> {<<>>},
       invLists |-> {<<"a">>},
       onEvict |-> TRUE],
      [name |-> "tags", keys |-> {1, 2}, values |-> {1}, els |-> 3,
       tagLists |-> {<<"a">>, <<"b">>, <<"a", "b">>},
       invLists |-> {<<"a">>, <<"b">>, <<"a", "b">>},
       onEvict |-> TRUE],
      [name |-> "tags3", keys |-> {1}, values |-> {1}, els |-> 2,
       tagLists |-> {<<"c">>, <<"a", "b">>},
       invLists |-> {<<"a", "b", "c">>, <<"c", "a", "b">>, <<"a", "c", "b">>, <<"a", "b">>},
       onEvict |-> TRUE],
      [name |-> "plain", keys |-> {1, 2}, values |-> {1}, els |-> 3,
       tagLists |-> {<<>>, <<"a">>},
       invLists |-> {<<"a">>},
       onEvict |-> FALSE] }

\* The callers that run as several threads.  They differ in what the
\* eviction callback they configured does: it returns, it panics, or it calls
\* a method of the same Cache.
ThreadWorlds ==
    { [name |-> n, keys |-> {1}, values |-> {1}, els |-> 1,
       tagLists |-> {<<"a">>},
       invLists |-> {<<"a">>},
       onEvict |-> TRUE] : n \in {"threads", "panics", "reenters"} }

VARIABLES
    size,       \* LRU.size
    evictList,  \* LRU.evictList, front (most recently used) first
    items,      \* LRU.items: key -> element
    tags,       \* LRU.tags: tag -> set of elements (bucket)
    ent,        \* element -> the entry it points at (el.Value)
    onEvict,    \* TRUE iff an eviction callback is configured
    world,      \* the caller: the name of the world its arguments come from
    calls,      \* the callback invocations made by the last operation, in order
    last,       \* the last operation: its arguments, what it returned, and
                \* the elements it took off the list (named as before it ran)
    recency,    \* elements in the list, most recently touched first
    pc,         \* thread -> where it is in a call of a Cache method
    op,         \* thread -> the Cache method it is calling
    outer,      \* thread -> the Cache method whose eviction callback it is in
    lock        \* Cache.lock: w, the thread that has announced or holds the
                \* exclusive lock; r, the threads that hold the shared lock

\* The sets the caller of this behaviour draws from.
World == CHOOSE w \in Worlds \cup ThreadWorlds : w.name = world

\* c.onEvict(ent.key, ent.value) comes back to the engine.
CallbackReturns == world \notin {"panics", "reenters"}

vars == <<size, evictList, items, tags, ent, onEvict, world, calls, last, recency,
          pc, op, outer, lock>>

\* ------------------------------------------------------------ helpers
Range(s) == {s[i] : i \in DOMAIN s}

EmptyMap == [x \in {} |-> Nil]

MapDelete(m, k) == [x \in (DOMAIN m) \ {k} |-> m[x]]

MapPut(m, k, v) == [x \in (DOMAIN m) \cup {k} |-> IF x = k THEN v ELSE m[x]]

\* type entry struct { key, value, tags }
NoEntry == [key |-> Nil, value |-> Nil, tags |-> <<>>]

\* container/list: Remove, PushFront, MoveToFront, Back.  Remove and
\* MoveToFront do nothing for an element that is not in the list.
ListRemove(l, el) == SelectSeq(l, LAMBDA x : x # el)

PushFront(l, el) == <<el>> \o l

\* A list that moves a touched element to the back: what MoveToFront must
\* differ from.
MoveToBack(l, el) == IF el \in Range(l) THEN ListRemove(l, el) \o <<el>> ELSE l

\* A list that never reorders (a FIFO): what MoveToFront must differ from.
MoveToFrontNoop(l, el) == l

MoveToFront(l, el) == IF el \in Range(l) THEN <<el>> \o ListRemove(l, el) ELSE l

Back(l) == IF Len(l) = 0 THEN Nil ELSE l[Len(l)]

\* The state of one LRU as a record, so that the methods compose.
\* calls and gone log what one operation does: the callback invocations, and
\* the elements list.Remove really unlinks.  stopped: a callback did not
\* return, so no later statement of the method runs.
Cache(sz, l, it, tg, en) ==
    [size |-> sz, evictList |-> l, items |-> it, tags |-> tg, ent |-> en,
     calls |-> <<>>, gone |-> <<>>, stopped |-> FALSE]

Cur == Cache(size, evictList, items, tags, ent)

\* ---------------------------------------------------------- tag index
\* func (c *LRU) tag(el, tags)
RECURSIVE tag(_, _, _)
tag(c, el, tgs) ==
    IF tgs = <<>> THEN c
    ELSE LET t == Head(tgs)
             bucket == IF t \in DOMAIN c.tags THEN c.tags[t] ELSE {}
         IN tag([c EXCEPT !.tags = MapPut(@, t, bucket \cup {el})], el, Tail(tgs))

\* func (c *LRU) untag(el, tags).  delete on a missing (nil) bucket is a no-op.
RECURSIVE untag(_, _, _)
untag(c, el, tgs) ==
    IF tgs = <<>> THEN c
    ELSE LET t == Head(tgs)
             c1 == IF t \in DOMAIN c.tags
                   THEN IF c.tags[t] \ {el} = {}
                        THEN [c EXCEPT !.tags = MapDelete(@, t)]
                        ELSE [c EXCEPT !.tags = MapPut(@, t, c.tags[t] \ {el})]
                   ELSE c
         IN untag(c1, el, Tail(tgs))

\* ------------------------------------------------------------ removal
\* func (c *LRU) removeElement(el)
removeElement(c, el) ==
    LET e == c.ent[el]
        c1 == [c EXCEPT !.evictList = ListRemove(@, el),
                        !.gone = IF el \in Range(c.evictList) THEN Append(@, el) ELSE @]
        c2 == untag(c1, el, e.tags)
        c3 == [c2 EXCEPT !.items = MapDelete(@, e.key)]
    IN IF c.stopped THEN c
       ELSE IF onEvict
       THEN [c3 EXCEPT !.calls = Append(@, [el |-> el, key |-> e.key, value |-> e.value]),
                       !.stopped = ~CallbackReturns]
       ELSE c3

\* func (c *LRU) removeOldest()
removeOldest(c) ==
    LET el == Back(c.evictList)
    IN IF el # Nil THEN removeElement(c, el) ELSE c

\* ---------------------------------------------------------------- Add
\* The tag list the update path of Add hands to untag.
UntagArg(c, el, tgs) == tgs

\* A trim that starts one entry late: what the test of Add must differ from.
ExceedsLate(c) == Len(c.evictList) > c.size + 1

\* evict := c.evictList.Len() > c.size
Exceeds(c) == Len(c.evictList) > c.size

\* func (c *LRU) Add(key, value, tags...) (evicted bool); `new` is the
\* element list.PushFront allocates when the key is not in the index.
LRUAdd(c, new, key, value, tgs) ==
    IF key \in DOMAIN c.items
    THEN LET el == c.items[key]
             c1 == [c EXCEPT !.evictList = MoveToFront(@, el)]
             c2 == untag(c1, el, UntagArg(c1, el, tgs))
             c3 == [c2 EXCEPT !.ent[el].value = value, !.ent[el].tags = tgs]
         IN [c |-> tag(c3, el, tgs), evicted |-> FALSE]
    ELSE LET c1 == [c EXCEPT !.ent[new] = [key |-> key, value |-> value, tags |-> tgs],
                             !.evictList = PushFront(@, new)]
             c2 == tag(c1, new, tgs)
             c3 == [c2 EXCEPT !.items = MapPut(@, key, new)]
             evict == Exceeds(c3)
         IN [c |-> IF evict THEN removeOldest(c3) ELSE c3, evicted |-> evict]

\* A Get that trims the cache when it misses: what the miss path of Get must
\* differ from.
LRUGetMissEvicts(c, key) ==
    IF key \in DOMAIN c.items
    THEN [c |-> [c EXCEPT !.evictList = MoveToFront(@, c.items[key])],
          value |-> c.ent[c.items[key]].value, ok |-> TRUE]
    ELSE [c |-> removeOldest(c), value |-> Nil, ok |-> FALSE]

\* func (c *LRU) Get(key) (value, ok)
LRUGet(c, key) ==
    IF key \in DOMAIN c.items
    THEN [c |-> [c EXCEPT !.evictList = MoveToFront(@, c.items[key])],
          value |-> c.ent[c.items[key]].value, ok |-> TRUE]
    ELSE [c |-> c, value |-> Nil, ok |-> FALSE]

\* func (c *LRU) Contains(key) (ok bool)
LRUContains(c, key) == key \in DOMAIN c.items

\* func (c *LRU) Peek(key) (value, ok)
LRUPeek(c, key) ==
    IF key \in DOMAIN c.items
    THEN [value |-> c.ent[c.items[key]].value, ok |-> TRUE]
    ELSE [value |-> Nil, ok |-> FALSE]

\* func (c *LRU) Len() int
LRULen(c) == Len(c.evictList)

\* func (c *LRU) Keys() []interface{}: a slice of len(c.items) slots filled
\* from the back of the list; writing past its end panics (index out of
\* range), and a slot never written stays nil.
LRUKeys(c) ==
    LET n == Cardinality(DOMAIN c.items)
        l == c.evictList
    IN IF Len(l) > n
       THEN [keys |-> <<>>, panic |-> TRUE]
       ELSE [keys |-> [i \in 1..n |-> IF i <= Len(l) THEN c.ent[l[Len(l) - i + 1]].key
                                       ELSE Nil],
             panic |-> FALSE]

\* func (c *LRU) Remove(key) (present bool)
LRURemove(c, key) ==
    IF key \in DOMAIN c.items
    THEN [c |-> removeElement(c, c.items[key]), present |-> TRUE]
    ELSE [c |-> c, present |-> FALSE]

\* func (c *LRU) RemoveOldest() (key, value, ok)
LRURemoveOldest(c) ==
    LET el == Back(c.evictList)
    IN IF el # Nil
       THEN [c |-> removeElement(c, el), key |-> c.ent[el].key,
             value |-> c.ent[el].value, ok |-> TRUE]
       ELSE [c |-> c, key |-> Nil, value |-> Nil, ok |-> FALSE]

\* func (c *LRU) GetOldest() (key, value, ok)
LRUGetOldest(c) ==
    LET el == Back(c.evictList)
    IN IF el # Nil
       THEN [key |-> c.ent[el].key, value |-> c.ent[el].value, ok |-> TRUE]
       ELSE [key |-> Nil, value |-> Nil, ok |-> FALSE]

\* func (c *Cache) ContainsOrAdd(key, value) (ok, evicted): the check and the
\* insert of the wrapper, both made while it holds the exclusive lock.
CacheContainsOrAdd(c, new, key, value) ==
    IF LRUContains(c, key)
    THEN [c |-> c, ok |-> TRUE, evicted |-> FALSE]
    ELSE LET r == LRUAdd(c, new, key, value, <<>>)
         IN [c |-> r.c, ok |-> FALSE, evicted |-> r.evicted]

\* ------------------------------------------------------------- Resize
\* The loop of Resize: i removals of the oldest element.
RECURSIVE removeOldestTimes(_, _)
removeOldestTimes(c, i) ==
    IF i <= 0 THEN c ELSE removeOldestTimes(removeOldest(c), i - 1)

\* c.size = size
ResizeStore(c, n) == n

\* func (c *LRU) Resize(size) (evicted int)
LRUResize(c, n) ==
    LET d == LRULen(c) - n
        diff == IF d < 0 THEN 0 ELSE d
        c1 == removeOldestTimes(c, diff)
    IN [c |-> IF c1.stopped THEN c1 ELSE [c1 EXCEPT !.size = ResizeStore(c1, n)],
        evicted |-> diff]

\* --------------------------------------------------------- Invalidate
\* Go ranges over a map in an unspecified order: `ord` is the order of one
\* call, a permutation of the elements in the buckets it ranges over (of the
\* keys in the index, for Purge).
Perms(S) == {f \in [1..Cardinality(S) -> S] : Range(f) = S}

Bucketed(c, tgs) == UNION {c.tags[t] : t \in Range(tgs) \cap DOMAIN c.tags}

InOrder(ord, S) == SelectSeq(ord, LAMBDA x : x \in S)

\* for el := range els { c.removeElement(el); removed++ }
RECURSIVE removeEach(_, _)
removeEach(c, els) ==
    IF els = <<>> THEN c ELSE removeEach(removeElement(c, Head(els)), Tail(els))

\* func (c *LRU) Invalidate(tags) (removed int), from the tag list that is
\* left and the count so far.  removeElement(el) deletes only el from a
\* bucket, so the range over a bucket visits every element that was in it
\* when the range began.
RECURSIVE invalidateFrom(_, _, _, _)
invalidateFrom(c, tgs, ord, removed) ==
    IF tgs = <<>> THEN [c |-> c, removed |-> removed]
    ELSE LET t == Head(tgs)
             els == IF t \in DOMAIN c.tags THEN InOrder(ord, c.tags[t]) ELSE <<>>
         IN invalidateFrom(removeEach(c, els), Tail(tgs), ord, removed + Len(els))

LRUInvalidate(c, tgs, ord) == invalidateFrom(c, tgs, ord, 0)

\* func (c *LRU) FindByTags(tags) (keys)
RECURSIVE LRUFindByTags(_, _, _)
LRUFindByTags(c, tgs, ord) ==
    IF tgs = <<>> THEN <<>>
    ELSE LET t == Head(tgs)
             els == IF t \in DOMAIN c.tags THEN InOrder(ord, c.tags[t]) ELSE <<>>
         IN [i \in 1..Len(els) |-> c.ent[els[i]].key] \o LRUFindByTags(c, Tail(tgs), ord)

\* -------------------------------------------------------------- Purge
\* for k, v := range c.items { onEvict(k, v.Value.(*entry).value); delete(c.items, k) }
RECURSIVE purgeItems(_, _)
purgeItems(c, ks) ==
    IF ks = <<>> \/ c.stopped THEN c
    ELSE LET k == Head(ks)
             el == c.items[k]
             c1 == IF onEvict
                   THEN [c EXCEPT !.calls = Append(@, [el |-> el, key |-> k,
                                                       value |-> c.ent[el].value]),
                                  !.stopped = ~CallbackReturns]
                   ELSE c
         IN purgeItems(IF c1.stopped THEN c1 ELSE [c1 EXCEPT !.items = MapDelete(@, k)],
                       Tail(ks))

\* func (c *LRU) Purge()
LRUPurge(c, ord) ==
    LET c1 == purgeItems(c, InOrder(ord, DOMAIN c.items))
    IN IF c1.stopped THEN c1
       ELSE [c1 EXCEPT !.evictList = <<>>, !.tags = EmptyMap, !.gone = c.evictList]

\* ======================================================== the machine
\* Elements no longer reachable from the list or from a bucket are garbage:
\* their identity is free for the next allocation and their entry is gone.
Live(c) == Range(c.evictList) \cup UNION {c.tags[t] : t \in DOMAIN c.tags}

\* Elements are pointers: a state is the same state under any renaming of
\* them.  Canon names the list elements 1..n from the front, then the
\* elements only buckets still reference, ordered by what they hold.
TagNum(t) == CASE t = "a" -> 1 [] t = "b" -> 2 [] OTHER -> 3

RECURSIVE TagsCode(_)
TagsCode(tgs) == IF tgs = <<>> THEN 0 ELSE TagNum(Head(tgs)) + 4 * TagsCode(Tail(tgs))

ElCode(c, el) ==
    LET e == c.ent[el]
        inA == IF "a" \in DOMAIN c.tags /\ el \in c.tags["a"] THEN 1 ELSE 0
        inB == IF "b" \in DOMAIN c.tags /\ el \in c.tags["b"] THEN 2 ELSE 0
        inC == IF "c" \in DOMAIN c.tags /\ el \in c.tags["c"] THEN 4 ELSE 0
    IN (((TagsCode(e.tags) * 8 + inA + inB + inC) * 8 + e.value) * 8 + e.key) * 8 + el

RECURSIVE Sorted(_, _)
Sorted(c, S) ==
    IF S = {} THEN <<>>
    ELSE LET m == CHOOSE x \in S : \A y \in S : ElCode(c, x) <= ElCode(c, y)
         IN <<m>> \o Sorted(c, S \ {m})

CanonOrder(c) == c.evictList \o Sorted(c, Live(c) \ Range(c.evictList))

Renamed(c, rec, order) ==
    LET name == [el \in Range(order) |-> CHOOSE i \in DOMAIN order : order[i] = el]
        present == SelectSeq(rec, LAMBDA el : el \in Range(c.evictList))
    IN [size |-> c.size,
        evictList |-> [i \in DOMAIN c.evictList |-> i],
        items |-> [k \in DOMAIN c.items |-> name[c.items[k]]],
        tags |-> [t \in DOMAIN c.tags |-> {name[el] : el \in c.tags[t]}],
        ent |-> [el \in Elements |->
                    IF el \in DOMAIN order THEN c.ent[order[el]] ELSE NoEntry],
        calls |-> c.calls,
        gone |-> c.gone,
        recency |-> [i \in DOMAIN present |-> name[present[i]]]]

Canon(c, rec) == CHOOSE d \in {Renamed(c, rec, order) : order \in {CanonOrder(c)}} : TRUE

FreeEls == (1..World.els) \ Live(Cur)

\* The element list.PushFront would allocate next (Nil: the caller's world
\* has none left).
NewEl == IF FreeEls = {} THEN Nil ELSE CHOOSE el \in FreeEls : \A o \in FreeEls : el <= o

Op(name) ==
    [op |-> name, key |-> Nil, value |-> Nil, tgs |-> <<>>, n |-> 0,
     ok |-> FALSE, found |-> FALSE, rkey |-> Nil, rvalue |-> Nil, count |-> 0,
     hit |-> FALSE, el |-> Nil, lenBefore |-> Len(evictList),
     chain |-> FALSE, old |-> <<>>, gone |-> <<>>, rkeys |-> <<>>, panic |-> FALSE]

\* The state after an operation that leaves the engine as c; rec is the
\* touch order after the operation's own touch.
Done(c, l, rec) ==
    \E d \in {Canon(c, rec)} :
        /\ size' = d.size
        /\ evictList' = d.evictList
        /\ items' = d.items
        /\ tags' = d.tags
        /\ ent' = d.ent
        /\ calls' = d.calls
        /\ last' = [l EXCEPT !.gone = d.gone]
        /\ recency' = d.recency
        /\ UNCHANGED <<onEvict, world>>

\* NewLRU(size, onEvict): size <= 0 is rejected, so a cache starts with a
\* positive capacity and empty structures.
Start(callers) ==
    /\ size \in 1..MaxSize
    /\ evictList = <<>>
    /\ items = EmptyMap
    /\ tags = EmptyMap
    /\ ent = [el \in Elements |-> NoEntry]
    /\ world \in {w.name : w \in callers}
    /\ onEvict = World.onEvict
    /\ calls = <<>>
    /\ last = [op |-> "New", key |-> Nil, value |-> Nil, tgs |-> <<>>, n |-> 0,
               ok |-> FALSE, found |-> FALSE, rkey |-> Nil, rvalue |-> Nil, count |-> 0,
               hit |-> FALSE, el |-> Nil, lenBefore |-> 0,
               chain |-> FALSE, old |-> <<>>, gone |-> <<>>, rkeys |-> <<>>, panic |-> FALSE]
    /\ recency = <<>>
    /\ pc = [t \in Threads |-> "idle"]
    /\ op = [t \in Threads |-> "none"]
    /\ outer = [t \in Threads |-> "none"]
    /\ lock = [w |-> Nil, r |-> {}]

Init == Start(Worlds)

\* A call made by the only thread there is: nobody contends for the lock, so
\* the call is one step and leaves the lock as it found it.
Sequential(A) == A /\ UNCHANGED <<pc, op, outer, lock>>

\* Cache.Add
Add ==
    \E key \in World.keys, value \in World.values, tgs \in World.tagLists :
        \E r \in {LRUAdd(Cur, NewEl, key, value, tgs)} :
        LET hit == key \in DOMAIN items
            el == IF hit THEN items[key] ELSE NewEl
            chain == hit /\ last.op = "Add" /\ last.key = key
        IN /\ el # Nil
           /\ Done(r.c,
                   [Op("Add") EXCEPT !.key = key, !.value = value, !.tgs = tgs,
                                     !.ok = r.evicted, !.hit = hit, !.el = el,
                                     !.chain = chain,
                                     !.old = IF chain THEN last.tgs ELSE <<>>],
                   <<el>> \o ListRemove(recency, el))

\* Cache.ContainsOrAdd
ContainsOrAdd ==
    \E key \in World.keys, value \in World.values :
        \E r \in {CacheContainsOrAdd(Cur, NewEl, key, value)} :
        LET hit == key \in DOMAIN items
        IN /\ hit \/ NewEl # Nil
           /\ Done(r.c,
                   [Op("ContainsOrAdd") EXCEPT !.key = key, !.value = value,
                                               !.found = r.ok, !.ok = r.evicted,
                                               !.hit = hit,
                                               !.el = IF hit THEN items[key] ELSE NewEl],
                   IF hit THEN recency ELSE <<NewEl>> \o recency)

\* Cache.Get
Get ==
    \E key \in World.keys :
        \E r \in {LRUGet(Cur, key)} :
        LET hit == key \in DOMAIN items
        IN Done(r.c,
                [Op("Get") EXCEPT !.key = key, !.ok = r.ok, !.rvalue = r.value,
                                  !.hit = hit,
                                  !.el = IF hit THEN items[key] ELSE Nil],
                IF hit THEN <<items[key]>> \o ListRemove(recency, items[key])
                ELSE recency)

\* Cache.Remove
Remove ==
    \E key \in World.keys :
        \E r \in {LRURemove(Cur, key)} :
        LET hit == key \in DOMAIN items
        IN Done(r.c,
                [Op("Remove") EXCEPT !.key = key, !.ok = r.present, !.hit = hit,
                                     !.el = IF hit THEN items[key] ELSE Nil],
                recency)

\* Cache.RemoveOldest
RemoveOldest ==
    \E r \in {LRURemoveOldest(Cur)} :
       Done(r.c,
            [Op("RemoveOldest") EXCEPT !.ok = r.ok, !.rkey = r.key,
                                       !.rvalue = r.value, !.el = Back(evictList)],
            recency)

\* Cache.Resize
Resize ==
    \E n \in Sizes :
        \E r \in {LRUResize(Cur, n)} :
           Done(r.c, [Op("Resize") EXCEPT !.n = n, !.count = r.evicted], recency)

\* Cache.Invalidate
Invalidate ==
    \E tgs \in World.invLists :
        \E ord \in Perms(Bucketed(Cur, tgs)) :
        \E r \in {LRUInvalidate(Cur, tgs, ord)} :
           Done(r.c, [Op("Invalidate") EXCEPT !.tgs = tgs, !.count = r.removed], recency)

\* Cache.Purge
Purge ==
    \E ord \in Perms(DOMAIN items) :
        \E c \in {LRUPurge(Cur, ord)} :
            Done(c, Op("Purge"), <<>>)

\* The state after an operation that only reads.
Read(l) ==
    /\ last' = l
    /\ calls' = <<>>
    /\ UNCHANGED <<size, evictList, items, tags, ent, onEvict, world, recency>>

\* Cache.Peek
Peek ==
    \E key \in World.keys :
        \E r \in {LRUPeek(Cur, key)} :
            Read([Op("Peek") EXCEPT !.key = key, !.ok = r.ok, !.rvalue = r.value,
                                    !.hit = key \in DOMAIN items])

\* Cache.Contains
Contains ==
    \E key \in World.keys :
        Read([Op("Contains") EXCEPT !.key = key, !.ok = LRUContains(Cur, key),
                                    !.hit = key \in DOMAIN items])

\* Cache.Keys
CacheKeys ==
    \E r \in {LRUKeys(Cur)} :
        Read([Op("Keys") EXCEPT !.rkeys = r.keys, !.panic = r.panic])

\* Cache.Len
CacheLen ==
    Read([Op("Len") EXCEPT !.count = LRULen(Cur)])

\* LRU.GetOldest (the engine's own read of the back of the list)
GetOldest ==
    \E r \in {LRUGetOldest(Cur)} :
        Read([Op("GetOldest") EXCEPT !.ok = r.ok, !.rkey = r.key, !.rvalue = r.value,
                                     !.el = Back(evictList)])

\* Cache.FindByTags
FindByTags ==
    \E tgs \in World.invLists :
        \E ord \in Perms(Bucketed(Cur, tgs)) :
            Read([Op("FindByTags") EXCEPT !.tgs = tgs,
                                          !.rkeys = LRUFindByTags(Cur, tgs, ord)])

Next ==
    \/ Sequential(Add)
    \/ Sequential(ContainsOrAdd)
    \/ Sequential(Get)
    \/ Sequential(Peek)
    \/ Sequential(Contains)
    \/ Sequential(CacheKeys)
    \/ Sequential(CacheLen)
    \/ Sequential(GetOldest)
    \/ Sequential(FindByTags)
    \/ Sequential(Remove)
    \/ Sequential(RemoveOldest)
    \/ Sequential(Resize)
    \/ Sequential(Invalidate)
    \/ Sequential(Purge)

Spec == Init /\ [][Next]_vars

\* ============================================================ threads
\* The methods of Cache that take c.lock.Lock() and those that take
\* c.lock.RLock(); the ones that release it with defer.
ExclusiveOps == {"Purge", "Add", "Get", "ContainsOrAdd", "Remove", "Resize",
                 "Invalidate", "FindByTags", "RemoveOldest"}

SharedOps == {"Contains", "Peek", "Keys", "Len"}

DeferOps == {"Add", "Get", "ContainsOrAdd", "Contains", "Peek", "Keys", "Len"}

\* A reader that does not wait for a writer: what RLock must differ from.
CanRLockAlways == TRUE

\* sync.RWMutex: RLock goes through unless a writer has announced itself or
\* holds the lock.
CanRLock == lock.w = Nil

\* A lock its holder can take again: what Lock must differ from.
CanLockAgain(t) == lock.w \in {Nil, t}

\* sync.RWMutex: Lock goes through its writer mutex when no writer has it.
CanLock(t) == lock.w = Nil

\* defer c.lock.Unlock() / defer c.lock.RUnlock() run when a panic unwinds.
UnlocksOnPanic(o) == o \in DeferOps

\* An unlock that leaves the lock as it is: what Unlock and RUnlock must
\* differ from.
StillLocked(t, o) == lock

\* c.lock.Unlock() / c.lock.RUnlock() by thread t in method o
Unlocked(t, o) ==
    IF o \in ExclusiveOps THEN [lock EXCEPT !.w = Nil] ELSE [lock EXCEPT !.r = @ \ {t}]

\* A thread calls a method of Cache.
Call(t) ==
    /\ pc[t] = "idle"
    /\ \E o \in ExclusiveOps \cup SharedOps : op' = [op EXCEPT ![t] = o]
    /\ pc' = [pc EXCEPT ![t] = "wait"]
    /\ UNCHANGED <<size, evictList, items, tags, ent, onEvict, world, calls, last,
                   recency, outer, lock>>

\* c.lock.Lock(), first half: the writer gets the writer mutex and announces
\* itself, which keeps new readers out.
LockAnnounce(t) ==
    /\ pc[t] = "wait"
    /\ op[t] \in ExclusiveOps
    /\ CanLock(t)
    /\ lock' = [lock EXCEPT !.w = t]
    /\ pc' = [pc EXCEPT ![t] = "drain"]
    /\ UNCHANGED <<size, evictList, items, tags, ent, onEvict, world, calls, last,
                   recency, op, outer>>

\* c.lock.Lock(), second half: the writer goes on when the readers have left.
LockAcquire(t) ==
    /\ pc[t] = "drain"
    /\ lock.r = {}
    /\ pc' = [pc EXCEPT ![t] = "in"]
    /\ UNCHANGED <<size, evictList, items, tags, ent, onEvict, world, calls, last,
                   recency, op, outer, lock>>

\* c.lock.RLock()
RLock(t) ==
    /\ pc[t] = "wait"
    /\ op[t] \in SharedOps
    /\ CanRLock
    /\ lock' = [lock EXCEPT !.r = @ \cup {t}]
    /\ pc' = [pc EXCEPT ![t] = "in"]
    /\ UNCHANGED <<size, evictList, items, tags, ent, onEvict, world, calls, last,
                   recency, op, outer>>

\* The methods a callback that calls back into the Cache calls: one that
\* takes the exclusive lock and one that takes the shared lock.
CallbackCalls == {"Add", "Len"}

\* The engine method the wrapper method o delegates to.
Engine(o) ==
    \/ o = "Purge" /\ Purge
    \/ o = "Add" /\ Add
    \/ o = "Get" /\ Get
    \/ o = "Contains" /\ Contains
    \/ o = "Peek" /\ Peek
    \/ o = "ContainsOrAdd" /\ ContainsOrAdd
    \/ o = "Remove" /\ Remove
    \/ o = "Resize" /\ Resize
    \/ o = "Invalidate" /\ Invalidate
    \/ o = "FindByTags" /\ FindByTags
    \/ o = "RemoveOldest" /\ RemoveOldest
    \/ o = "Keys" /\ CacheKeys
    \/ o = "Len" /\ CacheLen

\* The thread that holds the lock runs the engine method.  The method
\* returns; or it panics (its callback did, or Keys indexed out of range) and
\* the panic unwinds the wrapper method, through its deferred unlock if it
\* has one, and the call ends; or its callback calls a method of this Cache.
Run(t) ==
    /\ pc[t] = "in"
    /\ Engine(op[t])
    /\ IF last'.panic \/ (world = "panics" /\ calls' # <<>>)
       THEN /\ pc' = [pc EXCEPT ![t] = "idle"]
            /\ op' = [op EXCEPT ![t] = "none"]
            /\ lock' = IF UnlocksOnPanic(op[t]) THEN Unlocked(t, op[t]) ELSE lock
            /\ outer' = outer
       ELSE IF world = "reenters" /\ calls' # <<>>
       THEN /\ pc' = [pc EXCEPT ![t] = "wait"]
            /\ \E o \in CallbackCalls : op' = [op EXCEPT ![t] = o]
            /\ outer' = [outer EXCEPT ![t] = op[t]]
            /\ lock' = lock
       ELSE /\ pc' = [pc EXCEPT ![t] = "ret"]
            /\ UNCHANGED <<op, outer, lock>>

\* The wrapper method unlocks and returns (to its caller, or to the callback
\* that called it).
Return(t) ==
    /\ pc[t] = "ret"
    /\ lock' = Unlocked(t, op[t])
    /\ IF outer[t] = "none"
       THEN /\ pc' = [pc EXCEPT ![t] = "idle"]
            /\ op' = [op EXCEPT ![t] = "none"]
            /\ outer' = outer
       ELSE /\ pc' = [pc EXCEPT ![t] = "ret"]
            /\ op' = [op EXCEPT ![t] = outer[t]]
            /\ outer' = [outer EXCEPT ![t] = "none"]
    /\ UNCHANGED <<size, evictList, items, tags, ent, onEvict, world, calls, last,
                   recency>>

ThreadInit == Start(ThreadWorlds)

ThreadNext ==
    \E t \in Threads :
        \/ Call(t)
        \/ LockAnnounce(t)
        \/ LockAcquire(t)
        \/ RLock(t)
        \/ Run(t)
        \/ Return(t)

ThreadSpec == ThreadInit /\ [][ThreadNext]_vars

\* Threads whose callback returns and calls nothing of the Cache, under a
\* fair scheduler and a fair lock: a thread that can run the engine, unlock
\* or go on once the readers have left does so; a thread that waits for a
\* lock that is free again and again gets it.
FairInit == Start({w \in ThreadWorlds : w.name = "threads"})

FairSpec ==
    /\ FairInit
    /\ [][ThreadNext]_vars
    /\ \A t \in Threads :
          /\ WF_vars(Run(t))
          /\ WF_vars(Return(t))
          /\ WF_vars(LockAcquire(t))
          /\ SF_vars(LockAnnounce(t))
          /\ SF_vars(RLock(t))

\* ------------------------------------------------------- type invariant
TypeOK ==
    /\ size \in Sizes
    /\ evictList \in UNION {[1..m -> Elements] : m \in 0..MaxEl}
    /\ DOMAIN items \subseteq World.keys
    /\ \A k \in DOMAIN items : items[k] \in Elements
    /\ DOMAIN tags \subseteq TagNames
    /\ \A t \in DOMAIN tags : tags[t] \subseteq Elements
    /\ recency \in UNION {[1..m -> Elements] : m \in 0..MaxEl}
    /\ pc \in [Threads -> {"idle", "wait", "drain", "in", "ret"}]
    /\ op \in [Threads -> ExclusiveOps \cup SharedOps \cup {"none"}]
    /\ outer \in [Threads -> ExclusiveOps \cup {"none"}]
    /\ lock.w \in Threads \cup {Nil}
    /\ lock.r \subseteq Threads

\* ============================================================= claims
InList(el) == el \in Range(evictList)

TagSet(el) == Range(ent[el].tags)

\* The keys FindByTags([t]) returns now (in whatever order).
Found(t) == Range(LRUFindByTags(Cur, <<t>>, [i \in 1..MaxEl |-> i]))

\* The number of callback invocations the step makes for element el.
CallsFor(el) == Cardinality({i \in DOMAIN calls' : calls'[i].el = el})

\* C1: tag association is a full replace on update.  After Add(k, v1, A)
\* followed by Add(k, v2, B), with k present throughout, FindByTags([t])
\* does not contain k for any t in A but not in B, and contains k for every
\* t in B.
C1_TagReplace ==
    (last.op = "Add" /\ last.chain) =>
        /\ \A t \in Range(last.old) \ Range(last.tgs) : last.key \notin Found(t)
        /\ \A t \in Range(last.tgs) : last.key \in Found(t)

\* C2: tag-index invariant.  An element is in the bucket of tag T if and only
\* if it is in the ordering list and T is in its entry's current tag list.
C2_TagIndex ==
    \A t \in TagNames, el \in Elements :
        (t \in DOMAIN tags /\ el \in tags[t]) <=> (InList(el) /\ t \in TagSet(el))

\* C3: the eviction callback fires exactly once per destroyed entry.  Every
\* invocation an operation makes is for an entry that was in the cache when
\* the operation began (or that this very Add created), carries that entry's
\* key and the value it held, and no entry is called for twice; every entry
\* the operation takes off the list is called for.
C3_CallbackOnce ==
    [][onEvict =>
        /\ \A i \in DOMAIN calls' :
              \/ /\ InList(calls'[i].el)
                 /\ calls'[i].key = ent[calls'[i].el].key
                 /\ calls'[i].value = ent[calls'[i].el].value
              \/ /\ last'.op = "Add" /\ ~last'.hit
                 /\ calls'[i].el = last'.el
                 /\ calls'[i].key = last'.key
                 /\ calls'[i].value = last'.value
        /\ \A i, j \in DOMAIN calls' : i # j => calls'[i].el # calls'[j].el
        /\ \A i \in DOMAIN last'.gone : CallsFor(last'.gone[i]) = 1]_vars

\* C4: the ordering list and the key index describe the same entries.  The
\* list is as long as the index has keys, every key of the index maps to a
\* list element carrying that key, and no two list elements carry one key.
C4_ListMatchesIndex ==
    /\ Len(evictList) = Cardinality(DOMAIN items)
    /\ \A k \in DOMAIN items : InList(items[k]) /\ ent[items[k]].key = k
    /\ \A i, j \in DOMAIN evictList :
          i # j => ent[evictList[i]].key # ent[evictList[j]].key

\* C5: capacity bound.  While the configured capacity is positive, Len() is
\* at most the capacity after every completed operation.
C5_CapacityBound == size >= 1 => Len(evictList) <= size

\* C5 witness: an Add has just evicted to keep a cache of capacity two full.
C5_Witness ==
    /\ last.op = "Add" /\ ~last.hit /\ last.ok
    /\ size = 2 /\ Len(evictList) = size

\* C6: LRU victim selection.  Add of an absent key on a cache whose Len()
\* equals its capacity evicts exactly one entry and returns true, and that
\* entry is the least recently touched one (by Add or successful Get) of the
\* entries present; Add of an absent key below capacity evicts nothing and
\* returns false.
C6_LruVictim ==
    [][(last'.op = "Add" /\ ~last'.hit) =>
        LET victim == Back(<<last'.el>> \o recency)
            isNew == victim = last'.el
        IN /\ Len(evictList) = size =>
                /\ last'.ok
                /\ last'.gone = <<victim>>
                /\ onEvict =>
                      calls' = <<[el |-> victim,
                                  key |-> IF isNew THEN last'.key ELSE ent[victim].key,
                                  value |-> IF isNew THEN last'.value
                                            ELSE ent[victim].value]>>
                /\ Len(evictList') = Len(evictList)
           /\ Len(evictList) < size =>
                /\ ~last'.ok
                /\ last'.gone = <<>>
                /\ calls' = <<>>
                /\ Len(evictList') = Len(evictList) + 1]_vars

\* C6 witness: an Add of an absent key has evicted from a full cache of
\* capacity two, in the world with more keys than capacity.
C6_Witness ==
    /\ world = "recency"
    /\ last.op = "Add" /\ ~last.hit /\ last.ok
    /\ last.lenBefore = 2 /\ size = 2 /\ Len(last.gone) = 1

\* C7: bulk invalidation.  Invalidate(tags) removes every present entry whose
\* current tag set contains one of the given tags, returns Len() before minus
\* Len() after, and the callback fires once for each entry it removes.
C7_Invalidate ==
    [][last'.op = "Invalidate" =>
        /\ \A el \in Range(evictList) :
              TagSet(el) \cap Range(last'.tgs) # {} => el \in Range(last'.gone)
        /\ last'.count = Len(evictList) - Len(evictList')
        /\ onEvict =>
              /\ Len(calls') = Len(last'.gone)
              /\ \A i \in DOMAIN last'.gone : CallsFor(last'.gone[i]) = 1]_vars

\* C8: double-tag invalidation does not double-count.  An entry whose current
\* tag set has two or more tags that all appear in the argument of one
\* Invalidate is removed once, called back once, and counted once.
C8_DoubleTag ==
    [][(last'.op = "Invalidate" /\ onEvict) =>
        \A el \in Range(evictList) :
            (Cardinality(TagSet(el)) >= 2 /\ TagSet(el) \subseteq Range(last'.tgs)) =>
                /\ Cardinality({i \in DOMAIN last'.gone : last'.gone[i] = el}) = 1
                /\ CallsFor(el) = 1]_vars

\* C9: Resize(n) returns the number of entries it evicted.  With n below
\* Len() it removes exactly the Len() - n least recently used entries,
\* oldest first with one callback each, and keeps the others in order; with
\* n at least Len() it removes nothing and returns 0; the stored capacity
\* becomes n.
C9_Resize ==
    [][last'.op = "Resize" =>
        LET n == last'.n
            L == Len(evictList)
            gone == last'.gone
        IN /\ last'.count = Len(gone)
           /\ size' = n
           /\ n < L =>
                /\ Len(gone) = L - n
                /\ \A i \in DOMAIN gone : gone[i] = evictList[L - i + 1]
                /\ onEvict =>
                      calls' = [i \in DOMAIN gone |->
                                   [el |-> gone[i], key |-> ent[gone[i]].key,
                                    value |-> ent[gone[i]].value]]
                /\ Len(evictList') = n
                /\ \A i \in DOMAIN evictList' :
                      ent'[evictList'[i]] = ent[evictList[i]]
           /\ n >= L =>
                /\ last'.count = 0
                /\ gone = <<>>
                /\ calls' = <<>>
                /\ Len(evictList') = L
                /\ \A i \in DOMAIN evictList' :
                      ent'[evictList'[i]] = ent[evictList[i]]]_vars

\* C10: round trip.  In any reachable state, Add(k, v, tags...) immediately
\* followed by Get(k) returns (v, true).
C10_RoundTrip ==
    last.op = "Add" =>
        /\ LRUGet(Cur, last.key).ok
        /\ LRUGet(Cur, last.key).value = last.value

\* The round trip restricted to states whose capacity is positive.
RoundTripAtPositiveSize == size >= 1 => C10_RoundTrip

\* The operations that only read, and the lookups that miss.
ReadOnlyOps == {"Peek", "Contains", "Keys", "Len", "GetOldest", "FindByTags"}

\* C11: read-only operations have no effect on state.  Get, Peek and Contains
\* on an absent key return not-found; those calls, Peek and Contains on a
\* present key, GetOldest, Keys, Len and FindByTags leave the list (contents
\* and order), the key index, the tag index, the entries and the capacity
\* unchanged and fire no callback.
C11_ReadOnly ==
    [][((last'.op \in {"Get", "Peek", "Contains"} /\ ~last'.hit) =>
            (~last'.ok /\ last'.rvalue = Nil))
       /\
       ((last'.op \in ReadOnlyOps \/ (last'.op = "Get" /\ ~last'.hit)) =>
            /\ evictList' = evictList
            /\ items' = items
            /\ tags' = tags
            /\ ent' = ent
            /\ size' = size
            /\ calls' = <<>>
            /\ last'.gone = <<>>)]_vars

\* C11 witness: a Get has just missed on a cache that holds an entry with a
\* tag bucket.
C11_Witness ==
    /\ last.op = "Get" /\ ~last.hit
    /\ Len(evictList) >= 1 /\ DOMAIN tags # {}

\* C12: ContainsOrAdd is atomic.  Of the calls ContainsOrAdd(k, _) that follow
\* one another on an absent key k, the first returns found = false and stores
\* its value, and each later one returns found = true, evicted = false; a
\* ContainsOrAdd on a present key changes neither a value, the tags nor the
\* order.
C12_ContainsOrAdd ==
    [][last'.op = "ContainsOrAdd" =>
          /\ last'.hit =>
                /\ last'.found /\ ~last'.ok
                /\ evictList' = evictList /\ items' = items
                /\ tags' = tags /\ ent' = ent /\ calls' = <<>>
          /\ ~last'.hit =>
                /\ ~last'.found
                /\ last'.key \in DOMAIN items'
                /\ ent'[items'[last'.key]].value = last'.value
          /\ (last.op = "ContainsOrAdd" /\ last.key = last'.key) =>
                /\ last'.found /\ ~last'.ok
                /\ ent'[items'[last'.key]].value =
                     (IF last.found THEN ent[items[last.key]].value ELSE last.value)]_vars

\* Thread t is inside the engine: it holds the lock and has not released it,
\* or it is in a callback the engine called.
Inside(t) == pc[t] \in {"in", "ret"} \/ outer[t] # "none"

\* The method thread t is inside the engine for.
InsideFor(t) == IF outer[t] # "none" THEN outer[t] ELSE op[t]

\* C13: mutual exclusion of the wrapper.  Two threads are inside the engine
\* at once only if both are in shared-lock reads (Contains, Peek, Keys, Len);
\* a thread in a mutating method is inside alone and holds the lock, and a
\* writer that readers are inside with has not gone past waiting for them.
C13_MutualExclusion ==
    /\ \A t, u \in Threads :
          (t # u /\ Inside(t) /\ Inside(u)) =>
              (InsideFor(t) \in SharedOps /\ InsideFor(u) \in SharedOps)
    /\ \A t \in Threads :
          Inside(t) => IF InsideFor(t) \in SharedOps
                       THEN t \in lock.r /\ (lock.w # Nil => pc[lock.w] = "drain")
                       ELSE lock.w = t /\ lock.r = {}

\* C13 witness: two readers are inside the engine together while a writer
\* has run before them.
C13_Witness ==
    /\ \A t \in {1, 2} : pc[t] = "in" /\ op[t] \in SharedOps
    /\ evictList # <<>>

\* C14: every wrapper call releases the lock it acquired when it ends, also
\* when it ends because the eviction callback panicked: a thread that is in
\* no call holds the lock neither exclusively nor shared.
C14_LockReleased ==
    \A t \in Threads : pc[t] = "idle" => (lock.w # t /\ t \notin lock.r)

\* C15: Keys() completes normally and returns a sequence of length Len() that
\* lists each present key exactly once, from the least recently used to the
\* most recently used, with no absent key and no empty slot.
C15_Keys ==
    last.op = "Keys" =>
        /\ ~last.panic
        /\ Len(last.rkeys) = Len(evictList)
        /\ \A i \in DOMAIN last.rkeys :
              /\ last.rkeys[i] # Nil
              /\ last.rkeys[i] = ent[evictList[Len(evictList) - i + 1]].key
              /\ LRUContains(Cur, last.rkeys[i])
        /\ \A i, j \in DOMAIN last.rkeys : i # j => last.rkeys[i] # last.rkeys[j]
        /\ \A k \in DOMAIN items : k \in Range(last.rkeys)

\* The entries of list l (under the entry map en) that carry none of the
\* tags T, in list order.
Untouched(l, en, T) ==
    LET keep == SelectSeq(l, LAMBDA el : Range(en[el].tags) \cap T = {})
    IN [i \in DOMAIN keep |-> en[keep[i]]]

\* C16: Invalidate touches only matching entries.  Every present entry whose
\* current tag set contains none of the given tags is still present after
\* Invalidate(tags), with the same value and tags and in the same relative
\* order, is still found by Contains and Peek, and gets no callback.
C16_InvalidateFrame ==
    [][last'.op = "Invalidate" =>
          /\ Untouched(evictList', ent', Range(last'.tgs))
               = Untouched(evictList, ent, Range(last'.tgs))
          /\ \A el \in Range(evictList) :
                TagSet(el) \cap Range(last'.tgs) = {} =>
                    /\ el \notin Range(last'.gone)
                    /\ CallsFor(el) = 0
                    /\ ent[el].key \in DOMAIN items'
                    /\ ent'[items'[ent[el].key]].value = ent[el].value]_vars

\* C17: Add on a present key is an update in place.  It returns false, evicts
\* nothing, fires no callback and leaves Len() unchanged; the entry holds the
\* new value and is the most recently used; every other entry keeps its
\* value, its tags and its place relative to the others.
C17_AddInPlace ==
    [][(last'.op = "Add" /\ last'.hit) =>
          LET rest == ListRemove(evictList, items[last'.key])
          IN /\ ~last'.ok
             /\ last'.gone = <<>>
             /\ calls' = <<>>
             /\ Len(evictList') = Len(evictList)
             /\ DOMAIN items' = DOMAIN items
             /\ items'[last'.key] = evictList'[1]
             /\ ent'[evictList'[1]].key = last'.key
             /\ ent'[evictList'[1]].value = last'.value
             /\ LRUPeek(Cur, last'.key).ok
             /\ Len(rest) = Len(evictList) - 1
             /\ \A i \in DOMAIN rest : ent'[evictList'[i + 1]] = ent[rest[i]]]_vars

\* C17 witness: an Add has just given a present key a new value in a cache
\* that holds a second entry.
C17_Witness ==
    /\ last.op = "Add" /\ last.hit /\ last.value = 2
    /\ Len(evictList) = 2
    /\ ent[evictList[2]].value = 1

\* C18: Purge empties the cache.  After Purge, Len() is 0, Keys() is empty,
\* Contains(k) is false for every key, the tag index has no bucket (so
\* FindByTags finds nothing), the capacity is unchanged, and the callback was
\* fired once for each entry that was present before, with its key and value.
C18_Purge ==
    [][last'.op = "Purge" =>
          /\ Len(evictList') = 0
          /\ DOMAIN items' = {}
          /\ DOMAIN tags' = {}
          /\ size' = size
          /\ onEvict =>
                /\ Len(calls') = Len(evictList)
                /\ \A el \in Range(evictList) :
                      /\ CallsFor(el) = 1
                      /\ \A i \in DOMAIN calls' :
                            calls'[i].el = el =>
                                /\ calls'[i].key = ent[el].key
                                /\ calls'[i].value = ent[el].value]_vars

\* C19: callback re-entrancy deadlocks.  Once the eviction callback of a
\* thread has called a method of the same Cache, that inner call never gets
\* the lock, the outer method never returns (the thread keeps the exclusive
\* lock), and no other thread gets the lock any more.
C19_ReentrancyDeadlocks ==
    [][\A t \in Threads :
          outer[t] # "none" =>
              /\ pc[t] = "wait" /\ pc'[t] = "wait"
              /\ outer'[t] = outer[t]
              /\ lock.w = t /\ lock'.w = t
              /\ \A u \in Threads \ {t} :
                    /\ pc[u] \in {"idle", "wait"}
                    /\ pc'[u] \in {"idle", "wait"}]_vars

\* C19 witness: a thread is in its callback, calling Len, while the other
\* thread waits for the lock.
C19_Witness ==
    /\ world = "reenters"
    /\ outer[1] = "Remove" /\ op[1] = "Len" /\ pc[1] = "wait"
    /\ pc[2] = "wait" /\ op[2] = "Get"

\* A thread is in a call: it waits for the lock, holds it, or is about to
\* release it.
Started(t) == pc[t] \in {"wait", "drain", "in", "ret"}

\* Some thread that is in a call can take its next step.
SomeoneMoves ==
    ENABLED (\E t \in Threads :
                LockAnnounce(t) \/ LockAcquire(t) \/ RLock(t) \/ Run(t) \/ Return(t))

\* C20: progress.  With a fair lock and a callback that returns and does not
\* call back into the cache, every started wrapper call gets the lock, runs to
\* its end (the loops of Resize, Invalidate and Purge included) and releases
\* the lock; and in no reachable state are all the threads that are in a call
\* blocked.
C20_Progress ==
    /\ \A t \in Threads : Started(t) ~> (pc[t] = "idle" /\ lock.w # t /\ t \notin lock.r)
    /\ []((\E t \in Threads : Started(t)) => SomeoneMoves)

\* C20 witness: a thread waits for the exclusive lock to call Resize while
\* the other thread holds it inside Invalidate, on a cache that holds an entry.
C20_Witness ==
    /\ world = "threads"
    /\ pc[1] = "wait" /\ op[1] = "Resize"
    /\ pc[2] = "in" /\ op[2] = "Invalidate"
    /\ evictList # <<>>

====
